---- MODULE Spec2Model ----
(***************************************************************************)
(* Credential resolution, credential store, trial issuer client and tool   *)
(* adapter of sentinel-signal-mcp (src/src/sentinel_signal_mcp).           *)
(*                                                                         *)
(* Text is a sequence of one-character strings: " " is whitespace, "/" the *)
(* slash, "h" stands for the scheme prefix "http://" of a base URL, the    *)
(* digits "0".."9" stand for the date-time part of an ISO-8601 timestamp   *)
(* (its value is the instant), "Z" for the Z suffix and "+" for a          *)
(* "+00:00" offset.  A Python value is a record [t, s]: None, a string     *)
(* with its text, or a non-string truthy value (a number).                 *)
(***************************************************************************)
EXTENDS Integers, Sequences, FiniteSets, TLC

\* --------------------------------------------------------------- bounds
\* number of concurrent resolve_credentials calls in the process
NumTasks == 2
\* the clock runs over 0..MaxNow
MaxNow == 2

Tasks == 1..NumTasks

\* ------------------------------------------------------- Python values
None == [t |-> "none", s |-> <<>>]
Str(text) == [t |-> "str", s |-> text]
\* a JSON number: not a string, truthy, str() of it is "7"
Num == [t |-> "num", s |-> <<"7">>]

IsStr(v) == v.t = "str"

\* variant: no string counts as a configured key
TruthyNumbersOnly(v) == v.t = "num"

\* bool(v)
Truthy(v) == IF v.t = "str" THEN v.s # <<>> ELSE v.t # "none"

\* str(v or "")
StrOrEmpty(v) == IF Truthy(v) THEN v.s ELSE <<>>

RECURSIVE LStrip(_)
LStrip(text) ==
    IF text # <<>> /\ Head(text) = " " THEN LStrip(Tail(text)) ELSE text

RECURSIVE RStripCh(_, _)
RStripCh(text, ch) ==
    IF text # <<>> /\ text[Len(text)] = ch
    THEN RStripCh(SubSeq(text, 1, Len(text) - 1), ch)
    ELSE text

\* str.strip()
Strip(text) == RStripCh(LStrip(text), " ")

\* str.rstrip("/")
RStripSlash(text) == RStripCh(text, "/")

\* value.replace("Z", "+00:00")
RECURSIVE ReplaceZ(_)
ReplaceZ(text) ==
    IF text = <<>> THEN <<>>
    ELSE <<(IF Head(text) = "Z" THEN "+" ELSE Head(text))>> \o ReplaceZ(Tail(text))

Digits == {"0", "1", "2", "3", "4", "5", "6", "7", "8", "9"}
DigitVal(ch) ==
    CASE ch = "0" -> 0 [] ch = "1" -> 1 [] ch = "2" -> 2 [] ch = "3" -> 3
      [] ch = "4" -> 4 [] ch = "5" -> 5 [] ch = "6" -> 6 [] ch = "7" -> 7
      [] ch = "8" -> 8 [] ch = "9" -> 9

\* ---------------------------------------------------- credential record
\* A JSON object read from or written to the credential file, or returned by
\* the issuer.  A key that is missing reads as None (dict.get).
Record(k, e, a, tk) ==
    [api_key |-> k, expires_at |-> e, api_base_url |-> a, token_base_url |-> tk,
     upgrade_url |-> None]

\* _parse_dt: datetime.fromisoformat(value.replace("Z", "+00:00"))
\* -> [ok, aware, at]; ok = FALSE is ValueError
_parse_dt(text) ==
    LET v == ReplaceZ(text) IN
    IF Len(v) = 1 /\ v[1] \in Digits
    THEN [ok |-> TRUE, aware |-> FALSE, at |-> DigitVal(v[1])]
    ELSE IF Len(v) = 2 /\ v[1] \in Digits /\ v[2] = "+"
    THEN [ok |-> TRUE, aware |-> TRUE, at |-> DigitVal(v[1])]
    ELSE [ok |-> FALSE, aware |-> FALSE, at |-> 0]

\* variant: an expiry equal to the current time has not expired yet
is_expired_strict(creds, clock) ==
    LET expires_at == creds.expires_at IN
    IF ~IsStr(expires_at) \/ Strip(expires_at.s) = <<>> THEN "False"
    ELSE LET expiry == _parse_dt(Strip(expires_at.s)) IN
         IF ~expiry.ok THEN "True"
         ELSE IF ~expiry.aware THEN "TypeError"
         ELSE IF expiry.at < clock THEN "True" ELSE "False"

\* is_expired -> "True", "False", or "TypeError" (a naive expiry compared with
\* the aware datetime.now(timezone.utc))
is_expired(creds, clock) ==
    LET expires_at == creds.expires_at IN
    IF ~IsStr(expires_at) \/ Strip(expires_at.s) = <<>> THEN "False"
    ELSE LET expiry == _parse_dt(Strip(expires_at.s)) IN
         IF ~expiry.ok THEN "True"
         ELSE IF ~expiry.aware THEN "TypeError"
         ELSE IF expiry.at <= clock THEN "True" ELSE "False"

\* variant: the recorded base URLs are compared as they are written
bases_match_exact(creds, api_base_url, token_base_url) ==
    /\ StrOrEmpty(creds.api_base_url) = api_base_url
    /\ StrOrEmpty(creds.token_base_url) = token_base_url

bases_match(creds, api_base_url, token_base_url) ==
    LET cached_api_base == RStripSlash(StrOrEmpty(creds.api_base_url))
        cached_token_base == RStripSlash(StrOrEmpty(creds.token_base_url))
    IN  /\ cached_api_base = RStripSlash(api_base_url)
        /\ cached_token_base = RStripSlash(token_base_url)

_validate_cached_credentials(creds) ==
    LET api_key == creds.api_key IN
    IsStr(api_key) /\ Strip(api_key.s) # <<>>

\* ------------------------------------------------------- credential store
\* What is at a path: nothing, a directory, or a file with its bytes and its
\* permission bits.  The bytes are classified by what read_text and
\* json.loads make of them: not UTF-8, not JSON, JSON that is no object, or
\* a JSON object (rec).  Mode "000" is a file its owner cannot read or write.
NoRec == Record(None, None, None, None)
Absent == [kind |-> "absent", rec |-> NoRec, mode |-> "none"]
Directory == [kind |-> "dir", rec |-> NoRec, mode |-> "none"]
File(kind, rec, mode) == [kind |-> kind, rec |-> rec, mode |-> mode]

\* the mode open() gives a new file: 0o666 & ~umask
CreateMode(mask) ==
    CASE mask = "022" -> "644" [] mask = "077" -> "600" [] mask = "000" -> "666"
      [] mask = "777" -> "000"

\* variant: only the api key of the record is written
json_dumps_key_only(payload) ==
    [kind |-> "object", rec |-> [NoRec EXCEPT !.api_key = payload.api_key]]

\* json.dumps(payload, indent=2, sort_keys=True) as the file's bytes
json_dumps(payload) == [kind |-> "object", rec |-> payload]

\* load_cached_credentials -> [exc, found, rec]
load_cached_credentials(disk) ==
    LET f == disk.file
        none == [exc |-> "none", found |-> FALSE, rec |-> NoRec]
    IN  IF f.kind = "absent" THEN none                      \* not path.exists()
        ELSE IF f.kind = "dir" \/ f.mode = "000" THEN none  \* OSError
        ELSE IF f.kind = "nonutf8"
        THEN [exc |-> "UnicodeDecodeError", found |-> FALSE, rec |-> NoRec]
        ELSE IF f.kind = "badjson" THEN none                \* JSONDecodeError
        ELSE IF f.kind # "object" THEN none                 \* not a dict
        ELSE [exc |-> "none", found |-> TRUE, rec |-> f.rec]

\* save_cached_credentials, statement by statement: -> [ok, disk]
SaveSteps == 5

\* variant: the record is written into the credential file itself, first
\* truncating it, with no temporary sibling
SaveStepInPlace(n, disk, mask, payload) ==
    CASE n = 1 -> [ok |-> TRUE, disk |-> [disk EXCEPT !.dir = TRUE]]
      [] n = 2 ->
            IF disk.file.kind = "dir" \/ (disk.file.kind # "absent" /\ disk.file.mode = "000")
            THEN [ok |-> FALSE, disk |-> disk]
            ELSE [ok |-> TRUE,
                  disk |-> [disk EXCEPT !.file =
                      File("badjson", NoRec,
                           IF disk.file.kind = "absent" THEN CreateMode(mask)
                           ELSE disk.file.mode)]]
      [] n = 3 -> [ok |-> TRUE, disk |-> [disk EXCEPT !.file.mode = "600"]]
      [] n = 4 ->
            [ok |-> TRUE,
             disk |-> [disk EXCEPT !.file.kind = json_dumps(payload).kind,
                                   !.file.rec = json_dumps(payload).rec]]
      [] n = 5 -> [ok |-> TRUE, disk |-> [disk EXCEPT !.file.mode = "600"]]

\* variant: the file is written and renamed without either chmod
SaveStepNoChmod(n, disk, mask, payload) ==
    CASE n = 1 -> [ok |-> TRUE, disk |-> [disk EXCEPT !.dir = TRUE]]
      [] n = 2 ->
            IF disk.tmp.kind = "dir" \/ (disk.tmp.kind # "absent" /\ disk.tmp.mode = "000")
            THEN [ok |-> FALSE, disk |-> disk]
            ELSE [ok |-> TRUE,
                  disk |-> [disk EXCEPT !.tmp =
                      File(json_dumps(payload).kind, json_dumps(payload).rec,
                           IF disk.tmp.kind = "absent" THEN CreateMode(mask)
                           ELSE disk.tmp.mode)]]
      [] n = 3 -> [ok |-> TRUE, disk |-> disk]
      [] n = 4 ->
            IF disk.file.kind = "dir"
            THEN [ok |-> FALSE, disk |-> disk]
            ELSE [ok |-> TRUE, disk |-> [disk EXCEPT !.file = disk.tmp, !.tmp = Absent]]
      [] n = 5 -> [ok |-> TRUE, disk |-> disk]

SaveStep(n, disk, mask, payload) ==
    CASE n = 1 ->   \* path.parent.mkdir(parents=True, exist_ok=True)
            [ok |-> TRUE, disk |-> [disk EXCEPT !.dir = TRUE]]
      [] n = 2 ->   \* tmp_path.write_text(json.dumps(...))
            IF disk.tmp.kind = "dir" \/ (disk.tmp.kind # "absent" /\ disk.tmp.mode = "000")
            THEN [ok |-> FALSE, disk |-> disk]
            ELSE [ok |-> TRUE,
                  disk |-> [disk EXCEPT !.tmp =
                      File(json_dumps(payload).kind, json_dumps(payload).rec,
                           IF disk.tmp.kind = "absent" THEN CreateMode(mask)
                           ELSE disk.tmp.mode)]]
      [] n = 3 ->   \* os.chmod(tmp_path, 0o600)
            [ok |-> TRUE, disk |-> [disk EXCEPT !.tmp.mode = "600"]]
      [] n = 4 ->   \* tmp_path.replace(path)
            IF disk.file.kind = "dir"
            THEN [ok |-> FALSE, disk |-> disk]
            ELSE [ok |-> TRUE, disk |-> [disk EXCEPT !.file = disk.tmp, !.tmp = Absent]]
      [] n = 5 ->   \* os.chmod(path, 0o600)
            [ok |-> TRUE, disk |-> [disk EXCEPT !.file.mode = "600"]]

\* variant: the file is reported removed and left where it is
remove_cached_credentials_kept(disk) ==
    IF disk.file.kind = "absent" THEN [exc |-> "none", removed |-> FALSE, disk |-> disk]
    ELSE IF disk.file.kind = "dir" THEN [exc |-> "OSError", removed |-> FALSE, disk |-> disk]
    ELSE [exc |-> "none", removed |-> TRUE, disk |-> disk]

\* remove_cached_credentials -> [exc, removed, disk]: path.unlink() raises
\* FileNotFoundError for a missing file (False), another OSError for a
\* directory, and removes a file whatever its own permission bits
remove_cached_credentials(disk) ==
    IF disk.file.kind = "absent" THEN [exc |-> "none", removed |-> FALSE, disk |-> disk]
    ELSE IF disk.file.kind = "dir" THEN [exc |-> "OSError", removed |-> FALSE, disk |-> disk]
    ELSE [exc |-> "none", removed |-> TRUE, disk |-> [disk EXCEPT !.file = Absent]]

\* ----------------------------------------------------- trial issuer client
\* An answer of the issuer: a transport failure, or a status with a body that
\* is not JSON, JSON that is no object, or a JSON object.
TransportError == [kind |-> "transport_error", status |-> 0, body |-> "none", rec |-> NoRec]
HttpResponse(status, body, rec) ==
    [kind |-> "response", status |-> status, body |-> body, rec |-> rec]

\* httpx.Response.is_error
is_error(status) == 400 <= status /\ status <= 599

\* variant: the record is returned as the issuer sent it, unstamped
fetch_trial_key_unstamped(settings, response) ==
    IF response.kind = "response" /\ ~is_error(response.status)
       /\ response.body = "object" /\ IsStr(response.rec.api_key)
       /\ Strip(response.rec.api_key.s) # <<>>
    THEN [ok |-> TRUE, payload |-> response.rec]
    ELSE [ok |-> FALSE, payload |-> NoRec]

\* fetch_trial_key -> [ok, payload]; ok = FALSE is CredentialResolutionError
fetch_trial_key(settings, response) ==
    LET fail == [ok |-> FALSE, payload |-> NoRec]
        \* response.json(), or {"raw_text": response.text} on ValueError
        payload == IF response.body = "text" THEN [isdict |-> TRUE, rec |-> NoRec]
                   ELSE IF response.body = "object" THEN [isdict |-> TRUE, rec |-> response.rec]
                   ELSE [isdict |-> FALSE, rec |-> NoRec]
    IN  IF response.kind = "transport_error" THEN fail
        ELSE IF is_error(response.status) THEN fail
        ELSE IF ~payload.isdict THEN fail
        ELSE IF ~IsStr(payload.rec.api_key) \/ Strip(payload.rec.api_key.s) = <<>> THEN fail
        ELSE [ok |-> TRUE,
              payload |-> [payload.rec EXCEPT
                              !.api_base_url = Str(settings.api_base_url),
                              !.token_base_url = Str(settings.token_base_url)]]

\* ------------------------------------------------------ credential resolver
\* ResolvedCredentials (of its metadata, the upgrade_url), or the exception
NoResult == [kind |-> "none", api_key |-> None, source |-> "none", upgrade_url |-> None]
Resolved(api_key, source, upgrade_url) ==
    [kind |-> "ok", api_key |-> api_key, source |-> source, upgrade_url |-> upgrade_url]
Raised(exc) == [kind |-> "error", api_key |-> None, source |-> exc, upgrade_url |-> None]

\* resolve_credentials from the load to the mint, under the lock:
\* -> the result, or NoResult when the call goes on to fetch_trial_key
ResolveLocked(settings, disk, clock) ==
    LET cached == load_cached_credentials(disk)
        expired == is_expired(cached.rec, clock)
    IN  IF cached.exc # "none" THEN Raised(cached.exc)
        ELSE IF cached.found /\ _validate_cached_credentials(cached.rec) /\ expired = "TypeError"
        THEN Raised("TypeError")
        ELSE IF /\ cached.found /\ _validate_cached_credentials(cached.rec)
                /\ expired = "False"
                /\ bases_match(cached.rec, settings.api_base_url, settings.token_base_url)
        THEN Resolved(cached.rec.api_key, "cache", cached.rec.upgrade_url)
        ELSE IF settings.no_trial THEN Raised("CredentialResolutionError")
        ELSE NoResult

\* ------------------------------------------------------------- API client
\* A JSON object of an API response body.  ok says whether the object has an
\* "ok" key and what it holds; detail and error are None, a string, a number
\* or a nested object (d) with its own code, message, detail, error and
\* upgrade_url.
Inner(code, message, detail, error, upgrade_url) ==
    [code |-> code, message |-> message, detail |-> detail, error |-> error,
     upgrade_url |-> upgrade_url]
NoInner == Inner(None, None, None, None, None)
JNone == [t |-> "none", s |-> <<>>, d |-> NoInner]
JStr(text) == [t |-> "str", s |-> text, d |-> NoInner]
JNum == [t |-> "num", s |-> <<"7">>, d |-> NoInner]
JDict(inner) == [t |-> "dict", s |-> <<>>, d |-> inner]
\* a nested value seen as a plain value (a dict is neither None nor a string)
Plain(j) == [t |-> j.t, s |-> j.s]

ApiObj(ok, code, message, detail, error, upgrade_url) ==
    [ok |-> ok, code |-> code, message |-> message, detail |-> detail,
     error |-> error, upgrade_url |-> upgrade_url]
\* {"raw_text": response.text}
RawText == ApiObj("missing", None, None, JNone, JNone, None)

NoResponse == [kind |-> "none"]
ApiTransportError ==
    [kind |-> "transport_error", status |-> 0, ctype |-> "none", body |-> "none",
     obj |-> RawText, retry_after |-> None]
ApiResponse(status, ctype, body, obj, retry_after) ==
    [kind |-> "response", status |-> status, ctype |-> ctype, body |-> body,
     obj |-> obj, retry_after |-> retry_after]

\* _parse_json_or_text -> [isdict, obj]
_parse_json_or_text(response) ==
    IF response.ctype = "json"
    THEN IF response.body = "object" THEN [isdict |-> TRUE, obj |-> response.obj]
         ELSE IF response.body = "list" THEN [isdict |-> FALSE, obj |-> RawText]
         ELSE [isdict |-> TRUE, obj |-> RawText]      \* ValueError
    ELSE [isdict |-> TRUE, obj |-> RawText]

\* _extract_error_object -> the dict the code and the message are read from
_extract_error_object(payload) ==
    IF ~payload.isdict THEN NoInner
    ELSE IF payload.obj.error.t = "dict" THEN payload.obj.error.d
    ELSE IF payload.obj.detail.t = "dict" THEN payload.obj.detail.d
    ELSE Inner(payload.obj.code, payload.obj.message, Plain(payload.obj.detail),
               Plain(payload.obj.error), payload.obj.upgrade_url)

NonBlankStr(v) == IsStr(v) /\ Strip(v.s) # <<>>

\* _extract_message -> the upstream text, or <<>> for the generic
\* "Sentinel API error {status_code}"
_extract_message(payload) ==
    LET error_obj == _extract_error_object(payload) IN
    IF NonBlankStr(error_obj.message) THEN Strip(error_obj.message.s)
    ELSE IF NonBlankStr(error_obj.detail) THEN Strip(error_obj.detail.s)
    ELSE IF NonBlankStr(error_obj.error) THEN Strip(error_obj.error.s)
    ELSE IF payload.isdict /\ NonBlankStr(Plain(payload.obj.detail))
    THEN Strip(payload.obj.detail.s)
    ELSE <<>>

\* _extract_code -> Str or None
_extract_code(payload) ==
    LET value == _extract_error_object(payload).code IN
    IF NonBlankStr(value) THEN Str(Strip(value.s)) ELSE None

\* variant: only the top level of the body is searched for an upgrade URL
_extract_upgrade_url_top(payload) ==
    IF ~payload.isdict THEN None
    ELSE IF NonBlankStr(payload.obj.upgrade_url) THEN Str(Strip(payload.obj.upgrade_url.s))
    ELSE None

\* _extract_upgrade_url -> Str or None
_extract_upgrade_url(payload) ==
    IF ~payload.isdict THEN None
    ELSE IF NonBlankStr(payload.obj.upgrade_url) THEN Str(Strip(payload.obj.upgrade_url.s))
    ELSE IF payload.obj.error.t = "dict" /\ NonBlankStr(payload.obj.error.d.upgrade_url)
    THEN Str(Strip(payload.obj.error.d.upgrade_url.s))
    ELSE IF payload.obj.detail.t = "dict" /\ NonBlankStr(payload.obj.detail.d.upgrade_url)
    THEN Str(Strip(payload.obj.detail.d.upgrade_url.s))
    ELSE None

\* int(raw) of a stripped header: an optional sign, then digits
RECURSIVE DigitsValue(_, _)
DigitsValue(text, acc) ==
    IF text = <<>> THEN acc ELSE DigitsValue(Tail(text), 10 * acc + DigitVal(Head(text)))

AllDigits(text) == text # <<>> /\ \A i \in 1..Len(text) : text[i] \in Digits

\* the digits int() accepts: an underscore may stand between two digits
IntDigits(text) ==
    /\ text # <<>>
    /\ \A i \in 1..Len(text) :
          \/ text[i] \in Digits
          \/ /\ text[i] = "_" /\ 1 < i /\ i < Len(text)
             /\ text[i - 1] \in Digits /\ text[i + 1] \in Digits
IntValue(text) == DigitsValue(SelectSeq(text, LAMBDA ch : ch # "_"), 0)

\* _parse_retry_after_seconds -> [some, n]; some = FALSE is None
_parse_retry_after_seconds(response) ==
    LET raw == Strip(StrOrEmpty(response.retry_after))
        none == [some |-> FALSE, n |-> 0]
    IN  IF raw = <<>> THEN none
        ELSE IF IntDigits(raw) THEN [some |-> TRUE, n |-> IntValue(raw)]
        ELSE IF Head(raw) = "+" /\ IntDigits(Tail(raw))
        THEN [some |-> TRUE, n |-> IntValue(Tail(raw))]
        ELSE IF Head(raw) = "-" /\ IntDigits(Tail(raw))
        THEN IF IntValue(Tail(raw)) = 0 THEN [some |-> TRUE, n |-> 0] ELSE none
        ELSE none

\* SentinelAPIError.  status_code 0 is None; message is "upstream" (text
\* holds it), "generic", "auth" (the fixed credential-check message),
\* "status" (the f"Sentinel API error {status_code}: {payload}" of the last
\* branch) or "transport"
SentinelAPIError(message, text, status_code, code, action, upgrade_url, retry) ==
    [message |-> message, text |-> text, status_code |-> status_code, code |-> code,
     action |-> action, upgrade_url |-> upgrade_url, retry_after_seconds |-> retry]
NoRetry == [some |-> FALSE, n |-> 0]

TrialQuotaExhausted == <<"t", "q">>
QuotaExhausted == <<"q">>
RateLimited == <<"r">>
AuthFailed == <<"a">>

\* _raise_for_error_response -> the SentinelAPIError it raises
_raise_for_error_response(response, payload, metadata_upgrade_url) ==
    LET status_code == response.status
        text == _extract_message(payload)
        message == IF text = <<>> THEN "generic" ELSE "upstream"
        code == _extract_code(payload)
        upgrade_url == IF Truthy(_extract_upgrade_url(payload))
                       THEN _extract_upgrade_url(payload) ELSE metadata_upgrade_url
    IN  IF status_code = 402
        THEN SentinelAPIError(message, text, status_code,
                 IF Truthy(code) /\ Strip(code.s) # <<>>
                 THEN (IF code.s = TrialQuotaExhausted THEN Str(QuotaExhausted) ELSE code)
                 ELSE Str(QuotaExhausted),
                 "upgrade_required", upgrade_url, NoRetry)
        ELSE IF status_code = 429
        THEN SentinelAPIError(message, text, status_code,
                 IF Truthy(code) THEN code ELSE Str(RateLimited),
                 "retry_later", None, _parse_retry_after_seconds(response))
        ELSE IF status_code \in {401, 403}
        THEN SentinelAPIError("auth", <<>>, status_code,
                 IF Truthy(code) THEN code ELSE Str(AuthFailed),
                 "configure_credentials", None, NoRetry)
        ELSE SentinelAPIError("status", <<>>, status_code, code, "none", None, NoRetry)

\* what _request returns or raises once the API has answered:
\* -> [kind, isdict, obj, err]; kind "payload" is the return
Outcome(kind, isdict, obj, err) == [kind |-> kind, isdict |-> isdict, obj |-> obj, err |-> err]
NoError == [message |-> "none"]
\* an exception that is no SentinelAPIError
Raise(exc) == Outcome(exc, FALSE, RawText, NoError)
NoOutcome == [kind |-> "none"]

_request(response, metadata_upgrade_url) ==
    LET payload == _parse_json_or_text(response) IN
    IF response.kind = "transport_error"
    THEN Outcome("SentinelAPIError", FALSE, RawText,
                 SentinelAPIError("transport", <<>>, 0, None, "none", None, NoRetry))
    ELSE IF is_error(response.status)
    THEN Outcome("SentinelAPIError", FALSE, RawText,
                 _raise_for_error_response(response, payload, metadata_upgrade_url))
    ELSE Outcome("payload", payload.isdict, payload.obj, NoError)

\* ------------------------------------------------------------ tool adapter
\* The envelope a tool returns: ok is "true", "false" or "other" (a payload's
\* own "ok" value that is no boolean); error is present or not, with its
\* code, message, and the optional fields.
Envelope(ok, has_error, code, message, action, status_code, retry, upgrade_url) ==
    [ok |-> ok, has_error |-> has_error, code |-> code, message |-> message,
     action |-> action, status_code |-> status_code, retry_after_seconds |-> retry,
     upgrade_url |-> upgrade_url]
NoEnvelope == [ok |-> "none"]

ApiErrorCode == <<"e">>
CredentialResolutionFailed == <<"c", "r">>
UnexpectedError == <<"u">>

\* _coerce_success_result
_coerce_success_result(isdict, obj) ==
    IF isdict /\ obj.ok # "missing"
    THEN Envelope(obj.ok, FALSE, <<>>, "none", "none", 0, NoRetry, None)
    ELSE Envelope("true", FALSE, <<>>, "none", "none", 0, NoRetry, None)

\* _tool_error_result
_tool_error_result(exc) ==
    IF exc.kind = "SentinelAPIError"
    THEN Envelope("false", TRUE,
             IF Truthy(exc.err.code) THEN exc.err.code.s ELSE ApiErrorCode,
             exc.err.message,
             exc.err.action,
             exc.err.status_code,
             exc.err.retry_after_seconds,
             IF Truthy(exc.err.upgrade_url) THEN exc.err.upgrade_url ELSE None)
    ELSE IF exc.kind = "CredentialResolutionError"
    THEN Envelope("false", TRUE, CredentialResolutionFailed, "credential",
                  "configure_credentials", 0, NoRetry, None)
    ELSE Envelope("false", TRUE, UnexpectedError, "unexpected", "none", 0, NoRetry, None)

\* a tool: try: result = await client.<op>(...) / except Exception / return
Tool(outcome) ==
    IF outcome.kind = "payload"
    THEN _coerce_success_result(outcome.isdict, outcome.obj)
    ELSE _tool_error_result(outcome)

\* ------------------------------------------------------------------ config
\* "h a" is DEFAULT_API_BASE_URL, "h t" DEFAULT_TOKEN_BASE_URL
ApiBase == <<"h", "a">>
OtherApiBase == <<"h", "b">>
TokenBase == <<"h", "t">>
OtherTokenBase == <<"h", "u">>

Settings(api_key, api_base_url, no_trial) ==
    [api_key |-> api_key, api_base_url |-> api_base_url,
     token_base_url |-> TokenBase, no_trial |-> no_trial]

\* the environment: each variable unset (None) or a string
Env(api_key, base_url, legacy_base_url, token_base_url, no_trial, timeout) ==
    [SENTINEL_API_KEY |-> api_key, SENTINEL_BASE_URL |-> base_url,
     SENTINEL_API_BASE_URL |-> legacy_base_url,
     SENTINEL_TOKEN_BASE_URL |-> token_base_url,
     SENTINEL_NO_TRIAL |-> no_trial, SENTINEL_TIMEOUT_SECONDS |-> timeout]

\* str.lower()
RECURSIVE Lower(_)
Lower(text) ==
    IF text = <<>> THEN <<>>
    ELSE <<(CASE Head(text) = "O" -> "o" [] Head(text) = "N" -> "n" [] OTHER -> Head(text))>>
         \o Lower(Tail(text))

\* _parse_env_flag: "1" and "on" stand for {"1", "true", "yes", "on"}
_parse_env_flag(value) == Lower(Strip(StrOrEmpty(value))) \in {<<"1">>, <<"o", "n">>}

\* _normalize_base_url -> [ok, url]; ok = FALSE is RuntimeError.  "h" is
\* "http://", so a text of "h" and slashes alone loses the scheme's own
\* slashes to rstrip("/") and no longer starts with it
_normalize_base_url(value) ==
    LET normalized == RStripSlash(Strip(value)) IN
    IF normalized = <<>> THEN [ok |-> FALSE, url |-> <<>>]
    ELSE IF ~(Head(normalized) = "h" /\ Len(normalized) >= 2) THEN [ok |-> FALSE, url |-> <<>>]
    ELSE [ok |-> TRUE, url |-> normalized]

\* float(timeout_raw) > 0: digits alone; any other text is no number > 0
TimeoutOk(raw) ==
    LET txt == Strip(raw) IN AllDigits(txt) /\ DigitsValue(txt, 0) > 0

\* load_settings -> [ok, settings]; ok = FALSE is RuntimeError
load_settings(env) ==
    LET api_key == IF Strip(StrOrEmpty(env.SENTINEL_API_KEY)) # <<>>
                   THEN Str(Strip(StrOrEmpty(env.SENTINEL_API_KEY))) ELSE None
        api_base_url ==
            _normalize_base_url(
                IF Truthy(env.SENTINEL_BASE_URL) THEN env.SENTINEL_BASE_URL.s
                ELSE IF Truthy(env.SENTINEL_API_BASE_URL) THEN env.SENTINEL_API_BASE_URL.s
                ELSE ApiBase)
        token_base_url ==
            _normalize_base_url(
                IF Truthy(env.SENTINEL_TOKEN_BASE_URL) THEN env.SENTINEL_TOKEN_BASE_URL.s
                ELSE TokenBase)
        timeout_raw == IF Truthy(env.SENTINEL_TIMEOUT_SECONDS)
                       THEN env.SENTINEL_TIMEOUT_SECONDS.s ELSE <<"3", "0">>
        fail == [ok |-> FALSE, settings |-> Settings(None, <<>>, FALSE)]
    IN  IF ~api_base_url.ok \/ ~token_base_url.ok \/ ~TimeoutOk(timeout_raw) THEN fail
        ELSE [ok |-> TRUE,
              settings |-> [Settings(api_key, api_base_url.url,
                                     _parse_env_flag(env.SENTINEL_NO_TRIAL))
                            EXCEPT !.token_base_url = token_base_url.url]]

\* ------------------------------------------------------------ input domains
\* Settings as the dataclass admits them: api_key None or any string, the base
\* URLs normalized (config.py, _normalize_base_url)
ApiKeys == {None, Str(<<>>), Str(<<" ">>), Str(<<"k">>)}
ApiBases == {ApiBase, OtherApiBase}
SettingsSet == {Settings(k, a, n) : k \in ApiKeys, a \in ApiBases, n \in BOOLEAN}

\* a cached record every check accepts under Settings(_, ApiBase, _) before
\* its expiry
GoodRecord == Record(Str(<<"c">>), Str(<<"2", "Z">>), Str(ApiBase), Str(TokenBase))

CachedKeys == {None, Num, Str(<<>>), Str(<<" ">>), Str(<<"c">>), Str(<<" ", "c">>)}
CachedExpiries ==
    {None, Num, Str(<<>>), Str(<<" ">>), Str(<<"1", "Z">>), Str(<<"2", "Z">>),
     Str(<<"1", "+">>), Str(<<" ", "2", "Z", " ">>), Str(<<"2">>), Str(<<"x">>),
     Str(<<"2", "Z", "Z">>)}
CachedApiBases == {None, Num, Str(<<>>), Str(ApiBase), Str(ApiBase \o <<"/">>),
                   Str(ApiBase \o <<"/", "/">>), Str(OtherApiBase)}
CachedTokenBases == {None, Str(TokenBase), Str(TokenBase \o <<"/">>), Str(OtherTokenBase)}

\* the records a credential file may hold at the start: each field varied
\* against a record that is good in the others, and the base URLs in pairs
CachedRecords ==
    {[GoodRecord EXCEPT !.api_key = k] : k \in CachedKeys}
    \cup {[GoodRecord EXCEPT !.expires_at = e] : e \in CachedExpiries}
    \cup {[GoodRecord EXCEPT !.api_base_url = a, !.token_base_url = tk] :
             a \in CachedApiBases, tk \in CachedTokenBases}
    \cup {NoRec}

InitDisks ==
    {[dir |-> d, file |-> Absent, tmp |-> Absent] : d \in BOOLEAN}
    \cup {[dir |-> TRUE, file |-> f, tmp |-> Absent] :
             f \in {Directory, File("nonutf8", NoRec, "600"), File("badjson", NoRec, "600"),
                    File("nonobject", NoRec, "600"), File("object", GoodRecord, "000")}}
    \cup {[dir |-> TRUE, file |-> File("object", r, "600"), tmp |-> Absent] :
             r \in CachedRecords}

\* what the issuer may answer to POST /v1/keys/trial
MintedRecords ==
    {Record(k, e, a, None) :
        k \in {None, Str(<<" ">>), Str(<<"m">>)},
        e \in {None, Str(<<"2", "Z">>)},
        a \in {None, Str(OtherApiBase)}}
MintResponses ==
    {TransportError}
    \cup {HttpResponse(st, b, NoRec) : st \in {200, 302, 500}, b \in {"text", "list"}}
    \cup {HttpResponse(st, "object", r) : st \in {200, 201, 302, 404, 500}, r \in MintedRecords}

\* the environments of a tool invocation
Envs ==
    {Env(k, b, l, None, n, to) :
        k \in {None, Str(<<" ">>), Str(<<" ", "k", " ">>)},
        b \in {None, Str(<<>>), Str(<<"h", "a", "/">>), Str(<<"f", "a">>), Str(<<"h", "/">>)},
        l \in {None, Str(OtherApiBase)},
        n \in {None, Str(<<" ", "O", "n">>), Str(<<"0">>)},
        to \in {None, Str(<<"5">>), Str(<<"0">>), Str(<<"x">>)}}
    \cup {Env(None, None, None, tk, None, None) : tk \in {Str(<<" ">>), Str(<<"h", "t", "/">>)}}

Ops == {"score_workflow", "get_limits", "get_usage", "submit_feedback"}

\* the bodies of the API's answers
UpgradeUrl == <<"h", "u", "p">>
ApiObjs ==
    {ApiObj(ok, None, None, JNone, JNone, None) : ok \in {"missing", "true", "false", "other"}}
    \cup {ApiObj("missing", Str(<<"x">>), Str(<<"m">>), JStr(<<"d">>), JNone, None),
          ApiObj("missing", None, None,
                 JDict(Inner(Str(TrialQuotaExhausted), Str(<<"n">>), None, None, Str(UpgradeUrl))),
                 JStr(<<"e">>), None)}

Statuses == {101, 200, 204, 302, 400, 401, 402, 403, 404, 429, 500, 503}
RetryAfters == {None, Str(<<"2">>), Str(<<" ", "1", "2">>), Str(<<"-", "1">>), Str(<<"x">>)}

\* every status with every body, and the Retry-After headers of a 429
ApiResponses ==
    {ApiTransportError}
    \cup {ApiResponse(st, ct, b, RawText, None) :
             st \in Statuses, ct \in {"json", "other"}, b \in {"text", "list"}}
    \cup {ApiResponse(st, "json", "object", o, None) : st \in Statuses, o \in ApiObjs}
    \cup {ApiResponse(st, "other", "object", ApiObj("false", None, None, JNone, JNone, None), None) :
             st \in Statuses}
    \cup {ApiResponse(429, "json", "text", RawText, ra) : ra \in RetryAfters}

\* the disks of a tool invocation: a cold start, records with and without an
\* upgrade URL, an unreadable text
ToolDisks ==
    {[dir |-> FALSE, file |-> Absent, tmp |-> Absent],
     [dir |-> TRUE, file |-> File("object", GoodRecord, "600"), tmp |-> Absent],
     [dir |-> TRUE, file |-> File("object", [GoodRecord EXCEPT !.upgrade_url = Str(UpgradeUrl)], "600"),
      tmp |-> Absent],
     [dir |-> TRUE, file |-> File("nonutf8", NoRec, "600"), tmp |-> Absent]}

\* ------------------------------------------------------------------- state
VARIABLES
    call,       \* per call: its position and what it has done
    locked,     \* _RESOLVE_LOCK._locked
    waiters,    \* _RESOLVE_LOCK._waiters, in arrival order
    running,    \* the call inside a synchronous stretch of code, or 0
    disk,       \* the credential path, its temporary sibling, its parent
    disk0,      \* the disk before any call
    umask,      \* the process umask
    now         \* the clock

vars == <<call, locked, waiters, running, disk, disk0, umask, now>>

NoSettings == Settings(None, <<>>, FALSE)
\* what a direct call of a function of the credential store returned or raised
NoRet == [exc |-> "none"]
\* op is "resolve" for a call of resolve_credentials itself, or the tool
\* invoked; seen and seenAt are the file and the time of the call's load;
\* waited says that the call had to wait for the lock; loads, mints, writes,
\* resolves and requests count what the call has done; ret is what a direct
\* call of load_cached_credentials, save_cached_credentials,
\* remove_cached_credentials or is_expired returned or raised
IdleCall ==
    [pc |-> "idle", op |-> "none", settings |-> NoSettings, result |-> NoResult,
     seen |-> Absent, seenAt |-> 0, payload |-> NoRec, step |-> 0,
     waited |-> FALSE, loads |-> 0, mints |-> 0, writes |-> 0, resolves |-> 0, requests |-> 0,
     response |-> NoResponse, outcome |-> NoOutcome, envelope |-> NoEnvelope,
     ret |-> NoRet]

\* the disks and settings of the concurrent calls: a cold start, a record
\* that is good until it expires, an expired one, and a path no save can replace
ConcurrentDisks ==
    {[dir |-> FALSE, file |-> Absent, tmp |-> Absent],
     [dir |-> TRUE, file |-> File("object", GoodRecord, "600"), tmp |-> Absent],
     [dir |-> TRUE, file |-> File("object", [GoodRecord EXCEPT !.expires_at = Str(<<"1", "Z">>)], "600"),
      tmp |-> Absent],
     [dir |-> TRUE, file |-> Directory, tmp |-> Absent]}
ConcurrentSettings ==
    {Settings(k, ApiBase, n) : k \in {None, Str(<<"k">>)}, n \in BOOLEAN}

InitWith(disks) ==
    /\ call = [t \in Tasks |-> IdleCall]
    /\ locked = FALSE
    /\ waiters = <<>>
    /\ running = 0
    /\ disk \in disks
    /\ disk0 = disk
    /\ umask = "022"
    /\ now = 0

Init == InitWith(ConcurrentDisks)

\* a tool returns its envelope
Finish(c, outcome) ==
    [c EXCEPT !.pc = "done", !.outcome = outcome, !.envelope = Tool(outcome)]

\* resolve_credentials returns or raises.  In _request (client.py, lines
\* 170-183) any exception ends as CredentialResolutionError, and a result is
\* followed by the HTTP request
Return(c, res) ==
    IF c.op = "resolve" THEN [c EXCEPT !.pc = "done", !.result = res]
    ELSE IF res.kind = "ok"
    THEN [c EXCEPT !.pc = "requesting", !.result = res, !.requests = @ + 1]
    ELSE Finish([c EXCEPT !.result = res], Raise("CredentialResolutionError"))

\* resolve_credentials, lines 131-149: the call holds the lock
Locked(c) ==
    LET res == ResolveLocked(c.settings, disk, now)
        c1 == [c EXCEPT !.seen = disk.file, !.seenAt = now, !.loads = @ + 1]
    IN  IF res = NoResult
        THEN [c1 EXCEPT !.pc = "minting", !.mints = @ + 1]
        ELSE Return(c1, res)

\* variant: the lock never makes a caller wait
LockFreeAlways == TRUE

\* Lock.acquire without waiting: the lock is free and nobody waits for it
LockFree == ~locked /\ waiters = <<>>

\* resolve_credentials up to its first suspension
Begin(t, op, s) ==
    /\ running = 0
    /\ call[t].pc = "idle"
    /\ LET c == [call[t] EXCEPT !.op = op, !.settings = s, !.resolves = @ + 1] IN
       IF Truthy(s.api_key)
       THEN /\ call' = [call EXCEPT ![t] = Return(c, Resolved(s.api_key, "env", None))]
            /\ UNCHANGED <<locked, waiters>>
       ELSE IF LockFree
       THEN /\ call' = [call EXCEPT ![t] = Locked(c)]
            /\ locked' = (Locked(c).pc = "minting")
            /\ UNCHANGED waiters
       ELSE /\ call' = [call EXCEPT ![t] = [c EXCEPT !.pc = "waiting", !.waited = TRUE]]
            /\ waiters' = Append(waiters, t)
            /\ UNCHANGED locked
    /\ UNCHANGED <<running, disk, disk0, umask, now>>

\* a call of resolve_credentials
Start(t, s) == Begin(t, "resolve", s)

\* a tool is invoked: _request loads the settings and resolves credentials
ToolStart(t, op, env) ==
    /\ running = 0
    /\ call[t].pc = "idle"
    /\ LET loaded == load_settings(env) IN
       IF loaded.ok
       THEN Begin(t, op, loaded.settings)
       ELSE /\ call' = [call EXCEPT ![t] =
                           Finish([@ EXCEPT !.op = op], Raise("RuntimeError"))]
            /\ UNCHANGED <<locked, waiters, running, disk, disk0, umask, now>>

\* variant: an answer of 401 or 403 deletes the credential file
ApiRespondEvicting(t, r) ==
    /\ running = 0
    /\ call[t].pc = "requesting"
    /\ call' = [call EXCEPT ![t] =
                   Finish([@ EXCEPT !.response = r], _request(r, @.result.upgrade_url))]
    /\ disk' = IF r.kind = "response" /\ r.status \in {401, 403}
               THEN [disk EXCEPT !.file = Absent] ELSE disk
    /\ UNCHANGED <<locked, waiters, running, disk0, umask, now>>

\* variant: a request answered 429 or 5xx is sent once more
ApiRespondRetry(t, r) ==
    /\ running = 0
    /\ call[t].pc = "requesting"
    /\ call' = [call EXCEPT ![t] =
                   IF r.kind = "response" /\ r.status \in {429, 500, 503} /\ @.requests < 2
                   THEN [@ EXCEPT !.requests = @ + 1]
                   ELSE Finish([@ EXCEPT !.response = r], _request(r, @.result.upgrade_url))]
    /\ UNCHANGED <<locked, waiters, running, disk, disk0, umask, now>>

\* the API answers, or the request fails: _request returns or raises and
\* the tool returns its envelope
ApiRespond(t, r) ==
    /\ running = 0
    /\ call[t].pc = "requesting"
    /\ call' = [call EXCEPT ![t] =
                   Finish([@ EXCEPT !.response = r], _request(r, @.result.upgrade_url))]
    /\ UNCHANGED <<locked, waiters, running, disk, disk0, umask, now>>

\* variant: a waiter goes on without finding the lock released
AcquiredWhileHeld(t) ==
    /\ running = 0
    /\ call[t].pc = "waiting"
    /\ waiters # <<>> /\ Head(waiters) = t
    /\ call' = [call EXCEPT ![t] = Locked(call[t])]
    /\ locked' = (locked \/ Locked(call[t]).pc = "minting")
    /\ waiters' = Tail(waiters)
    /\ UNCHANGED <<running, disk, disk0, umask, now>>

\* the first waiter is woken by release() and takes the lock
Acquired(t) ==
    /\ running = 0
    /\ call[t].pc = "waiting"
    /\ ~locked
    /\ waiters # <<>> /\ Head(waiters) = t
    /\ call' = [call EXCEPT ![t] = Locked(call[t])]
    /\ locked' = (Locked(call[t]).pc = "minting")
    /\ waiters' = Tail(waiters)
    /\ UNCHANGED <<running, disk, disk0, umask, now>>

\* variant: a failed mint leaves the lock held
MintRespondHolding(t, r) ==
    /\ running = 0
    /\ call[t].pc = "minting"
    /\ LET got == fetch_trial_key(call[t].settings, r) IN
       IF got.ok
       THEN /\ call' = [call EXCEPT ![t] =
                           [@ EXCEPT !.pc = "saving", !.payload = got.payload, !.step = 1]]
            /\ running' = t
       ELSE /\ call' = [call EXCEPT ![t] = Return(@, Raised("CredentialResolutionError"))]
            /\ UNCHANGED running
    /\ UNCHANGED <<locked, waiters, disk, disk0, umask, now>>

\* variant: a failed mint deletes the credential file
MintRespondClearing(t, r) ==
    /\ running = 0
    /\ call[t].pc = "minting"
    /\ LET got == fetch_trial_key(call[t].settings, r) IN
       IF got.ok
       THEN /\ call' = [call EXCEPT ![t] =
                           [@ EXCEPT !.pc = "saving", !.payload = got.payload, !.step = 1]]
            /\ running' = t
            /\ UNCHANGED <<locked, disk>>
       ELSE /\ call' = [call EXCEPT ![t] = Return(@, Raised("CredentialResolutionError"))]
            /\ locked' = FALSE
            /\ disk' = [disk EXCEPT !.file = Absent]
            /\ UNCHANGED running
    /\ UNCHANGED <<waiters, disk0, umask, now>>

\* the issuer's answer arrives: fetch_trial_key returns or raises
MintRespond(t, r) ==
    /\ running = 0
    /\ call[t].pc = "minting"
    /\ LET got == fetch_trial_key(call[t].settings, r) IN
       IF got.ok
       THEN /\ call' = [call EXCEPT ![t] =
                           [@ EXCEPT !.pc = "saving", !.payload = got.payload, !.step = 1]]
            /\ running' = t
            /\ UNCHANGED locked
       ELSE /\ call' = [call EXCEPT ![t] = Return(@, Raised("CredentialResolutionError"))]
            /\ locked' = FALSE
            /\ UNCHANGED running
    /\ UNCHANGED <<waiters, disk, disk0, umask, now>>

\* one statement of save_cached_credentials; after the last, the return
Save(t) ==
    /\ running = t
    /\ call[t].pc = "saving"
    /\ LET c == call[t]
           did == SaveStep(c.step, disk, umask, c.payload)
       IN  /\ disk' = did.disk
           /\ IF ~did.ok
              THEN /\ call' = [call EXCEPT ![t] = Return(c, Raised("OSError"))]
                   /\ locked' = FALSE
                   /\ running' = 0
              ELSE IF c.step < SaveSteps
              THEN /\ call' = [call EXCEPT ![t] = [c EXCEPT !.step = @ + 1, !.writes = @ + 1]]
                   /\ UNCHANGED <<locked, running>>
              ELSE /\ call' = [call EXCEPT ![t] =
                                  Return([c EXCEPT !.writes = @ + 1],
                                         Resolved(c.payload.api_key, "trial", c.payload.upgrade_url))]
                   /\ locked' = FALSE
                   /\ running' = 0
    /\ UNCHANGED <<waiters, disk0, umask, now>>

\* time passes
Tick ==
    /\ now < MaxNow
    /\ now' = now + 1
    /\ UNCHANGED <<call, locked, waiters, running, disk, disk0, umask>>

\* the caller calls again once its call has ended
Again(t) ==
    /\ running = 0
    /\ call[t].pc = "done"
    /\ call' = [call EXCEPT ![t] = IdleCall]
    /\ UNCHANGED <<locked, waiters, running, disk, disk0, umask, now>>

\* any number of concurrent calls of resolve_credentials
Next ==
    \/ \E t \in Tasks, s \in ConcurrentSettings : Start(t, s)
    \/ \E t \in Tasks : Acquired(t)
    \/ \E t \in Tasks, r \in MintResponses : MintRespond(t, r)
    \/ \E t \in Tasks : Save(t)
    \/ Tick

Spec == Init /\ [][Next]_vars

\* the ways a mint request ends: a timeout or another transport failure, a
\* refusal, a record
LiveResponses ==
    {TransportError, HttpResponse(500, "text", NoRec),
     HttpResponse(200, "object", Record(Str(<<"m">>), None, None, None))}

\* the event loop runs every task that can run, every mint request is
\* answered or times out (httpx timeout, credentials.py 92-95), and a save
\* runs to its end
Fairness ==
    \A t \in Tasks :
        /\ WF_vars(Acquired(t))
        /\ WF_vars(\E r \in LiveResponses : MintRespond(t, r))
        /\ WF_vars(Save(t))

\* concurrent calls under that scheduling
NextLive ==
    \/ \E t \in Tasks, s \in ConcurrentSettings : Start(t, s)
    \/ \E t \in Tasks : Acquired(t)
    \/ \E t \in Tasks, r \in LiveResponses : MintRespond(t, r)
    \/ \E t \in Tasks : Save(t)

SpecLive == Init /\ [][NextLive]_vars /\ Fairness

\* one caller calling resolve_credentials again and again, over every
\* Settings value and every content of the credential path
InitResolve == InitWith(InitDisks)

NextResolve ==
    \/ \E s \in SettingsSet : Start(1, s)
    \/ \E r \in MintResponses : MintRespond(1, r)
    \/ Save(1)
    \/ Again(1)
    \/ Tick

SpecResolve == InitResolve /\ [][NextResolve]_vars

\* one agent invoking the tools one after the other
InitTool == InitWith(ToolDisks)

NextTool ==
    \/ \E op \in Ops, env \in Envs : ToolStart(1, op, env)
    \/ \E r \in MintResponses : MintRespond(1, r)
    \/ Save(1)
    \/ \E r \in ApiResponses : ApiRespond(1, r)
    \/ Again(1)

SpecTool == InitTool /\ [][NextTool]_vars

\* ------------------------------------------------- the classification alone
\* the upgrade URLs of a body: at the top level, under error, under detail
TopUrl == <<"h", "1">>
ErrorUrl == <<"h", "2">>
DetailUrl == <<"h", "3">>

\* what a "code" field may hold
BodyCodes ==
    {None, Num, Str(<<" ">>), Str(<<"x">>), Str(<<" ", "x", " ">>),
     Str(TrialQuotaExhausted), Str(<<" ">> \o TrialQuotaExhausted)}

\* the JSON objects of an error body: flat, with a detail object, with an
\* error object beside a detail of every kind
ClassifyObjs ==
    {ApiObj("missing", c, m, JNone, JNone, u) :
        c \in BodyCodes, m \in {None, Str(<<"m">>)},
        u \in {None, Num, Str(<<" ">>), Str(TopUrl), Str(<<" ">> \o TopUrl)}}
    \cup {ApiObj("missing", tc, None, JDict(Inner(c, Str(<<"n">>), None, None, u)), JNone, tu) :
             tc \in {None, Str(<<"y">>)}, c \in BodyCodes,
             u \in {None, Str(DetailUrl)}, tu \in {None, Str(TopUrl)}}
    \cup {ApiObj("missing", None, None, d, JDict(Inner(c, None, None, None, u)), None) :
             d \in {JNone, JStr(<<"d">>), JDict(Inner(Str(<<"z">>), None, None, None, Str(DetailUrl)))},
             c \in BodyCodes, u \in {None, Str(ErrorUrl)}}

ClassifyStatuses == {101, 200, 302, 400, 401, 402, 403, 404, 429, 500, 503}

\* what a Retry-After header may hold
ClassifyRetryAfters ==
    RetryAfters \cup
    {Str(<<>>), Str(<<" ">>), Str(<<"0">>), Str(<<"-", "0">>), Str(<<"+", "3">>),
     Str(<<"1", "_", "0">>), Str(<<"_", "1">>), Str(<<"2", ".", "5">>), Str(<<"1", " ", "2">>)}

ClassifyResponses ==
    {ApiTransportError}
    \cup {ApiResponse(st, "json", "object", o, None) : st \in ClassifyStatuses, o \in ClassifyObjs}
    \cup {ApiResponse(st, ct, b, RawText, None) :
             st \in ClassifyStatuses, ct \in {"json", "other"}, b \in {"text", "list"}}
    \cup {ApiResponse(st, "other", "object",
                      ApiObj("missing", Str(<<"x">>), None, JNone, JNone, Str(TopUrl)), None) :
             st \in ClassifyStatuses}
    \cup {ApiResponse(429, "json", b, ApiObj("missing", c, None, JNone, JNone, None), ra) :
             b \in {"object", "text"}, c \in {None, Str(<<"x">>)}, ra \in ClassifyRetryAfters}

\* a static key, or a cached record with or without an upgrade URL
ClassifyEnvs == {Env(k, None, None, None, None, None) : k \in {None, Str(<<"k">>)}}
ClassifyDisks ==
    {[dir |-> TRUE, file |-> File("object", [GoodRecord EXCEPT !.upgrade_url = u], "600"),
      tmp |-> Absent] : u \in {None, Str(UpgradeUrl)}}

InitClassify == InitWith(ClassifyDisks)

\* one operation after the other, each answered by the API
NextClassify ==
    \/ \E op \in Ops, env \in ClassifyEnvs : ToolStart(1, op, env)
    \/ \E r \in ClassifyResponses : ApiRespond(1, r)
    \/ Again(1)

SpecClassify == InitClassify /\ [][NextClassify]_vars

\* ---------------------------------------------- the credential store alone
Umasks == {"022", "077", "000", "777"}

\* a record left by an earlier run
OldRecord == Record(Str(<<"o">>), None, Str(OtherApiBase), Str(OtherTokenBase))

\* the disks a direct call of the store may find: every content of the path,
\* a file with wider permission bits, and a temporary sibling left behind
\* (a file, an unwritable file, a directory)
StoreDisks ==
    InitDisks
    \cup {[dir |-> TRUE, file |-> File("object", OldRecord, m), tmp |-> Absent] :
             m \in {"644", "666"}}
    \cup {[dir |-> TRUE, file |-> f, tmp |-> tp] :
             f \in {Absent, File("object", OldRecord, "644")},
             tp \in {Directory, File("badjson", NoRec, "644"), File("object", OldRecord, "000")}}

\* the records saved
StoreRecords ==
    {GoodRecord, NoRec, OldRecord,
     Record(Str(<<" ", "c">>), Str(<<"x">>), Str(ApiBase \o <<"/">>), None),
     [GoodRecord EXCEPT !.upgrade_url = Str(UpgradeUrl)]}

\* the records whose expiry is checked
StoreExpiries == CachedExpiries \cup {Str(<<"0", "Z">>), Str(<<"3", "+">>), Str(<<"1">>)}
ExpiryRecords == {[GoodRecord EXCEPT !.expires_at = e] : e \in StoreExpiries}

InitStore ==
    /\ call = [t \in Tasks |-> IdleCall]
    /\ locked = FALSE
    /\ waiters = <<>>
    /\ running = 0
    /\ disk \in StoreDisks
    /\ disk0 = disk
    /\ umask \in Umasks
    /\ now = 0

\* a call of load_cached_credentials(path)
StoreLoad(t) ==
    /\ running = 0
    /\ call[t].pc = "idle"
    /\ call' = [call EXCEPT ![t] =
                   [@ EXCEPT !.pc = "done", !.op = "load", !.seen = disk.file,
                             !.seenAt = now, !.loads = @ + 1,
                             !.ret = load_cached_credentials(disk)]]
    /\ UNCHANGED <<locked, waiters, running, disk, disk0, umask, now>>

\* a call of save_cached_credentials(path, payload) begins
StoreSave(t, payload) ==
    /\ running = 0
    /\ call[t].pc = "idle"
    /\ call' = [call EXCEPT ![t] =
                   [@ EXCEPT !.pc = "storing", !.op = "save", !.seen = disk.file,
                             !.payload = payload, !.step = 1]]
    /\ running' = t
    /\ UNCHANGED <<locked, waiters, disk, disk0, umask, now>>

\* one statement of that call; an OSError ends it, the last statement returns
StoreSaveStep(t) ==
    /\ running = t
    /\ call[t].pc = "storing"
    /\ LET c == call[t]
           did == SaveStep(c.step, disk, umask, c.payload)
       IN  /\ disk' = did.disk
           /\ IF ~did.ok
              THEN /\ call' = [call EXCEPT ![t] =
                                  [c EXCEPT !.pc = "done", !.ret = [exc |-> "OSError"]]]
                   /\ running' = 0
              ELSE IF c.step < SaveSteps
              THEN /\ call' = [call EXCEPT ![t] = [c EXCEPT !.step = @ + 1, !.writes = @ + 1]]
                   /\ UNCHANGED running
              ELSE /\ call' = [call EXCEPT ![t] =
                                  [c EXCEPT !.pc = "done", !.writes = @ + 1,
                                            !.ret = [exc |-> "none"]]]
                   /\ running' = 0
    /\ UNCHANGED <<locked, waiters, disk0, umask, now>>

\* a call of remove_cached_credentials(path)
StoreRemove(t) ==
    /\ running = 0
    /\ call[t].pc = "idle"
    /\ LET did == remove_cached_credentials(disk) IN
       /\ call' = [call EXCEPT ![t] =
                      [@ EXCEPT !.pc = "done", !.op = "remove", !.seen = disk.file,
                                !.ret = [exc |-> did.exc, removed |-> did.removed]]]
       /\ disk' = did.disk
    /\ UNCHANGED <<locked, waiters, running, disk0, umask, now>>

\* a call of is_expired(creds)
CheckExpiry(t, creds) ==
    /\ running = 0
    /\ call[t].pc = "idle"
    /\ LET got == is_expired(creds, now) IN
       call' = [call EXCEPT ![t] =
                   [@ EXCEPT !.pc = "done", !.op = "is_expired", !.payload = creds,
                             !.seenAt = now,
                             !.ret = [exc |-> IF got = "TypeError" THEN got ELSE "none",
                                      expired |-> got = "True"]]]
    /\ UNCHANGED <<locked, waiters, running, disk, disk0, umask, now>>

\* one caller of the store's functions, one call after the other
NextStore ==
    \/ StoreLoad(1)
    \/ \E payload \in StoreRecords : StoreSave(1, payload)
    \/ StoreSaveStep(1)
    \/ StoreRemove(1)
    \/ \E creds \in ExpiryRecords : CheckExpiry(1, creds)
    \/ Again(1)
    \/ Tick

SpecStore == InitStore /\ [][NextStore]_vars

\* ------------------------------------------------------------------ claims
Done(t) == call[t].pc = "done"
Minters == {t \in Tasks : call[t].mints > 0}
Savers == {t \in Tasks : call[t].writes = SaveSteps}

\* every call was a cold start: no file at the start, no static key, trial
\* minting allowed, and every answer of the issuer was a record that is
\* accepted and has not expired
ColdStart ==
    /\ disk0.file.kind = "absent"
    /\ \A t \in Tasks :
          /\ ~Truthy(call[t].settings.api_key)
          /\ ~call[t].settings.no_trial
          /\ call[t].mints > 0 =>
                /\ call[t].result.kind = "ok"
                /\ call[t].payload.expires_at = None
                   \/ (call[t].payload.expires_at = Str(<<"2", "Z">>) /\ now < 2)

\* C1: concurrent cold-start calls of resolve_credentials under the same
\* settings, the issuer answering every mint request with a valid record, end
\* with exactly one mint request and exactly one record persisted; the one
\* caller that minted returns provenance trial, every other caller returns
\* that same key with provenance cache, and the file holds that record.
C1_OneMintOnePersist ==
    ((\A t \in Tasks : Done(t)) /\ ColdStart) =>
        /\ Cardinality(Minters) = 1
        /\ Cardinality(Savers) = 1
        /\ \A t \in Tasks :
              /\ call[t].mints <= 1
              /\ call[t].result.kind = "ok"
              /\ call[t].result.source = (IF t \in Minters THEN "trial" ELSE "cache")
              /\ \A m \in Minters :
                    /\ call[t].result.api_key = call[m].payload.api_key
                    /\ disk.file = File("object", call[m].payload, "600")

\* C1 witness: two cold-start calls have ended, one of them after waiting for
\* the lock and with the key from the cache.
C1_Witness ==
    /\ \A t \in Tasks : Done(t)
    /\ ColdStart
    /\ \E t \in Tasks : call[t].waited /\ call[t].result.source = "cache"

InFlight == {t \in Tasks : call[t].pc = "minting"}
Writing == {t \in Tasks : call[t].pc = "saving"}

\* C2: in every reachable state at most one trial-mint request is in flight
\* and at most one write of the credential file is in progress, never both at
\* once, and the call doing either holds the lock.
C2_MutualExclusion ==
    /\ Cardinality(InFlight) <= 1
    /\ Cardinality(Writing) <= 1
    /\ Cardinality(InFlight \cup Writing) <= 1
    /\ (InFlight \cup Writing # {}) => locked

\* C2 witness: a mint request is in flight while another call waits for the
\* lock.
C2_Witness ==
    \E t \in Tasks, u \in Tasks :
        call[t].pc = "minting" /\ call[u].pc = "waiting"

\* a direct call of resolve_credentials by t
Resolving(t) == call[t].op = "resolve"
\* the step in which t's call of resolve_credentials begins
Begins(t) == call[t].pc = "idle" /\ call'[t].pc # "idle"
\* the step in which t's call of resolve_credentials ends
Ends(t) == call[t].pc # "done" /\ call'[t].pc = "done"

\* C3: a call whose settings hold a non-blank static api key returns that key
\* with provenance env in its first step, without loading, writing or
\* creating the credential file, without touching the lock and without a mint
\* request, whatever is at the credential path.
C3_EnvKeyTouchesNothing ==
    [][\A t \in Tasks :
          (Begins(t) /\ Resolving(t)' /\ NonBlankStr(call'[t].settings.api_key)) =>
              /\ call'[t].pc = "done"
              /\ call'[t].result = Resolved(call'[t].settings.api_key, "env", None)
              /\ call'[t].loads = 0 /\ call'[t].writes = 0 /\ call'[t].mints = 0
              /\ disk' = disk
              /\ locked' = locked /\ waiters' = waiters]_vars

\* C3 witness: a call with a static key has returned it with provenance env
\* while the credential path holds bytes that are no record.
C3_Witness ==
    \E t \in Tasks :
        /\ Done(t) /\ Resolving(t)
        /\ NonBlankStr(call[t].settings.api_key)
        /\ call[t].result.source = "env"
        /\ disk.file.kind = "nonutf8"

\* the record t's load found: what load_cached_credentials made of the file
\* at the time of the load
Loaded(t) == load_cached_credentials([dir |-> TRUE, file |-> call[t].seen, tmp |-> Absent])

\* an expiry in the Z or offset form that lies after the instant
FutureExpiry(v, clock) ==
    /\ IsStr(v)
    /\ \E d \in Digits : Strip(v.s) \in {<<d, "Z">>, <<d, "+">>} /\ DigitVal(d) > clock

\* the recorded base URL is the settings' one but for trailing slashes
SameBase(v, url) == IsStr(v) /\ RStripSlash(v.s) = RStripSlash(url)

\* a call without a static api key that has loaded the credential file
Keyless(t) == Done(t) /\ Resolving(t) /\ ~Truthy(call[t].settings.api_key) /\ call[t].loads = 1

\* C4: without a static api key, a cached record with a non-blank api key, a
\* future expiry or none, and base URLs equal to the settings' after
\* trailing-slash stripping is returned with provenance cache, without a mint
\* request and without a write of the file, whether or not no_trial is set.
C4_ValidCacheIsUsed ==
    \A t \in Tasks :
        (/\ Keyless(t)
         /\ Loaded(t).found
         /\ NonBlankStr(Loaded(t).rec.api_key)
         /\ Loaded(t).rec.expires_at = None \/ FutureExpiry(Loaded(t).rec.expires_at, call[t].seenAt)
         /\ SameBase(Loaded(t).rec.api_base_url, call[t].settings.api_base_url)
         /\ SameBase(Loaded(t).rec.token_base_url, call[t].settings.token_base_url))
        => /\ call[t].result =
                 Resolved(Loaded(t).rec.api_key, "cache", Loaded(t).rec.upgrade_url)
           /\ call[t].mints = 0
           /\ call[t].writes = 0

\* C4 witness: with no_trial set, a record whose base URL is written with a
\* trailing slash has been returned with provenance cache.
C4_Witness ==
    \E t \in Tasks :
        /\ Keyless(t)
        /\ call[t].settings.no_trial
        /\ call[t].result.source = "cache"
        /\ call[t].seen.rec.api_base_url = Str(ApiBase \o <<"/">>)

\* an expiry in the Z or offset form at or before the instant, or a text
\* that is no timestamp
PastExpiry(v, clock) ==
    /\ IsStr(v)
    /\ Strip(v.s) # <<>>
    /\ \/ \E d \in Digits : Strip(v.s) \in {<<d, "Z">>, <<d, "+">>} /\ DigitVal(d) <= clock
       \/ ~\E d \in Digits : Strip(v.s) \in {<<d, "Z">>, <<d, "+">>, <<d>>}

\* the file t loaded holds no usable record: it is absent or malformed, or its
\* record lacks a non-blank api key, has expired, or names other base URLs
Unusable(t) ==
    \/ call[t].seen.kind # "object"
    \/ ~Loaded(t).found
    \/ ~NonBlankStr(Loaded(t).rec.api_key)
    \/ PastExpiry(Loaded(t).rec.expires_at, call[t].seenAt)
    \/ ~SameBase(Loaded(t).rec.api_base_url, call[t].settings.api_base_url)
    \/ ~SameBase(Loaded(t).rec.token_base_url, call[t].settings.token_base_url)

\* C5: without a static api key and with no usable cached record, the call
\* never returns the cached key: it sends a mint request when no_trial is
\* unset, and fails with CredentialResolutionError without a mint request
\* when no_trial is set.
C5_UnusableCacheFallsThrough ==
    \A t \in Tasks :
        (Keyless(t) /\ Unusable(t)) =>
            /\ call[t].result.source # "cache"
            /\ IF call[t].settings.no_trial
               THEN call[t].result = Raised("CredentialResolutionError") /\ call[t].mints = 0
               ELSE call[t].mints = 1

\* C6: when a call returns provenance trial, the credential file holds exactly
\* the minted record, whose api key is the returned one and whose base URLs
\* are the settings', so that the record passes the base-match check and a
\* load returns it.
C6_TrialIsPersisted ==
    [][\A t \in Tasks :
          (Ends(t) /\ Resolving(t) /\ call'[t].result.source = "trial") =>
              /\ disk'.file = File("object", call'[t].payload, "600")
              /\ disk'.tmp = Absent
              /\ call'[t].result.kind = "ok"
              /\ call'[t].result.api_key = disk'.file.rec.api_key
              /\ disk'.file.rec.api_base_url = Str(call'[t].settings.api_base_url)
              /\ disk'.file.rec.token_base_url = Str(call'[t].settings.token_base_url)
              /\ load_cached_credentials(disk').found
              /\ bases_match(load_cached_credentials(disk').rec,
                             call'[t].settings.api_base_url,
                             call'[t].settings.token_base_url)]_vars

\* C6 witness: a call has returned provenance trial over a file that held
\* another record, from an issuer whose answer named another base URL.
C6_Witness ==
    \E t \in Tasks :
        /\ Done(t) /\ Resolving(t)
        /\ call[t].result.source = "trial"
        /\ call[t].seen.kind = "object"
        /\ call[t].seen.rec # call[t].payload
        /\ disk.file.rec = call[t].payload

\* C7: every successful return of resolve_credentials carries a non-blank api
\* key and a provenance among env, cache and trial.
C7_ReturnedKeyNonBlank ==
    \A t \in Tasks :
        (Done(t) /\ Resolving(t) /\ call[t].result.kind = "ok") =>
            /\ NonBlankStr(call[t].result.api_key)
            /\ call[t].result.source \in {"env", "cache", "trial"}

\* an invocation of a tool by t that has returned
Invoked(t) == Done(t) /\ call[t].op \in Ops
\* the API answered t's request with a status
Answered(t) == Invoked(t) /\ call[t].response.kind = "response"
Is2xx(status) == 200 <= status /\ status <= 299

\* C8: an API operation answered with a status that is not 2xx raises a
\* SentinelAPIError carrying that status, and a payload is returned only for
\* a 2xx answer.
C8_Non2xxRaises ==
    \A t \in Tasks :
        Answered(t) =>
            IF Is2xx(call[t].response.status)
            THEN call[t].outcome.kind = "payload"
            ELSE /\ call[t].outcome.kind = "SentinelAPIError"
                 /\ call[t].outcome.err.status_code = call[t].response.status

\* C9: every tool invocation returns an envelope; ok is true exactly when the
\* API answered with a 2xx payload, and otherwise ok is false with an error
\* that carries a code and a message.
C9_EnvelopeOkIff2xx ==
    \A t \in Tasks :
        Invoked(t) =>
            /\ call[t].envelope # NoEnvelope
            /\ IF Answered(t) /\ Is2xx(call[t].response.status)
               THEN call[t].envelope.ok = "true"
               ELSE /\ call[t].envelope.ok = "false"
                    /\ call[t].envelope.has_error
                    /\ call[t].envelope.code # <<>>
                    /\ call[t].envelope.message # "none"

\* C10: nothing is retried.  An invocation resolves credentials at most once,
\* and exactly once unless its settings fail to load; it sends at most one
\* mint request and at most one request to the API; the request to the API
\* is sent only after the resolution has returned credentials, and never when
\* the resolution failed.
C10_NoRetry ==
    \A t \in Tasks :
        call[t].op \in Ops =>
            /\ call[t].resolves <= 1 /\ call[t].mints <= 1 /\ call[t].requests <= 1
            /\ call[t].resolves = (IF call[t].outcome.kind = "RuntimeError" THEN 0 ELSE 1)
            /\ call[t].mints <= call[t].resolves
            /\ call[t].requests = 1 => call[t].result.kind = "ok"
            /\ (Done(t) /\ call[t].result.kind # "ok") =>
                  call[t].requests = 0 /\ call[t].outcome.kind # "payload"
            /\ (Done(t) /\ call[t].result.kind = "ok") => call[t].requests = 1

\* C10 witness: an invocation that minted a key and was answered 503 has
\* returned after one resolution, one mint request and one API request.
C10_Witness ==
    \E t \in Tasks :
        /\ Answered(t)
        /\ call[t].response.status = 503
        /\ call[t].resolves = 1 /\ call[t].mints = 1 /\ call[t].requests = 1

\* a direct call of a function of the credential store by t that has ended
Called(t, op) == Done(t) /\ call[t].op = op

\* the path held a file that can be read and whose bytes are a JSON object
HoldsObject(f) == f.kind = "object" /\ f.mode # "000"

\* C11: load_cached_credentials never raises; it returns the record when the
\* file holds a JSON object and absent in every other state of the path
\* (absent, a directory, unreadable, not UTF-8, malformed JSON, JSON that is
\* no object).
C11_LoadNeverRaises ==
    \A t \in Tasks :
        Called(t, "load") =>
            /\ call[t].ret.exc = "none"
            /\ call[t].ret.found = HoldsObject(call[t].seen)
            /\ call[t].ret.found => call[t].ret.rec = call[t].seen.rec

\* C12: is_expired says expired for an expiry at or before the current time
\* (the boundary included) and for a text that is no timestamp, and not
\* expired for an expiry after the current time and for a record without an
\* expiry; it raises in none of these cases.
C12_ExpiryCheck ==
    \A t \in Tasks :
        Called(t, "is_expired") =>
            LET expires_at == call[t].payload.expires_at
                clock == call[t].seenAt
            IN  /\ expires_at = None => call[t].ret = [exc |-> "none", expired |-> FALSE]
                /\ FutureExpiry(expires_at, clock) =>
                       call[t].ret = [exc |-> "none", expired |-> FALSE]
                /\ PastExpiry(expires_at, clock) =>
                       call[t].ret = [exc |-> "none", expired |-> TRUE]

\* C12 witness: a record whose expiry is the current time has been found
\* expired.
C12_Witness ==
    \E t \in Tasks :
        /\ Called(t, "is_expired")
        /\ call[t].payload.expires_at = Str(<<"1", "Z">>)
        /\ call[t].seenAt = 1
        /\ call[t].ret.expired

\* C13: for a cached record with a non-blank api key, whatever its expires_at
\* field holds, the expiry check yields expired or not expired without
\* raising, and the call ends with provenance cache or trial or with
\* CredentialResolutionError.
C13_ExpiryNeverFatal ==
    \A t \in Tasks :
        (Keyless(t) /\ Loaded(t).found /\ NonBlankStr(Loaded(t).rec.api_key)) =>
            /\ is_expired(Loaded(t).rec, call[t].seenAt) \in {"True", "False"}
            /\ \/ call[t].result.kind = "ok" /\ call[t].result.source \in {"cache", "trial"}
               \/ call[t].result = Raised("CredentialResolutionError")

\* a call of save_cached_credentials by t has returned
Saved(t) == Called(t, "save") /\ call[t].ret.exc = "none"

\* C14: a save followed by a load yields a record with the api key and the
\* base URLs of the record saved, for every record and every path, one whose
\* parent directory does not exist yet included; the save itself fails only
\* where a directory occupies the path or the temporary sibling cannot be
\* written.
C14_SaveLoadRoundTrip ==
    \A t \in Tasks :
        /\ Saved(t) =>
              LET loaded == load_cached_credentials(disk) IN
              /\ loaded.exc = "none" /\ loaded.found
              /\ loaded.rec.api_key = call[t].payload.api_key
              /\ loaded.rec.api_base_url = call[t].payload.api_base_url
              /\ loaded.rec.token_base_url = call[t].payload.token_base_url
        /\ (Called(t, "save") /\ ~Saved(t)) =>
              \/ disk.file.kind = "dir"
              \/ disk.tmp.kind = "dir"
              \/ disk.tmp.mode = "000"

\* C14 witness: a record with base URLs has been saved to a path whose parent
\* directory did not exist.
C14_Witness ==
    \E t \in Tasks :
        /\ Saved(t)
        /\ ~disk0.dir
        /\ call[t].seen = Absent
        /\ call[t].payload = OldRecord
        /\ load_cached_credentials(disk).rec = OldRecord

\* C15: after save_cached_credentials has returned, the permission bits of
\* the credential file are exactly 0600, whatever the umask and whatever the
\* bits of a file that was at the path or at the temporary sibling before.
C15_FileMode0600 ==
    \A t \in Tasks : Saved(t) => disk.file.mode = "600"

\* C15 witness: a save under umask 000 over a file with bits 0644 has
\* returned.
C15_Witness ==
    \E t \in Tasks :
        /\ Saved(t)
        /\ umask = "000"
        /\ call[t].seen.kind = "object" /\ call[t].seen.mode = "644"

\* C16: remove_cached_credentials returns false without raising where there
\* is no file and true where there is one, and leaves the path absent; a
\* remove right after it returns false and a load right after it returns
\* absent.
C16_Remove ==
    \A t \in Tasks :
        Called(t, "remove") =>
            /\ call[t].seen.kind = "absent" =>
                  call[t].ret = [exc |-> "none", removed |-> FALSE]
            /\ call[t].seen.kind \notin {"absent", "dir"} =>
                  call[t].ret = [exc |-> "none", removed |-> TRUE]
            /\ call[t].ret.exc = "none" =>
                  /\ disk.file = Absent
                  /\ remove_cached_credentials(disk) =
                        [exc |-> "none", removed |-> FALSE, disk |-> disk]
                  /\ load_cached_credentials(disk) =
                        [exc |-> "none", found |-> FALSE, rec |-> NoRec]

\* C16 witness: a file that held a record has been removed.
C16_Witness ==
    \E t \in Tasks :
        /\ Called(t, "remove")
        /\ call[t].seen.kind = "object"
        /\ call[t].ret.removed
        /\ disk.file = Absent

\* the JSON object of a response body, when the response is declared JSON
\* and its body is an object; any other body holds no field
BodyOf(r) == IF r.ctype = "json" /\ r.body = "object" THEN r.obj ELSE RawText

\* the code the API sent: the non-blank "code" string of the body's error
\* description (its "error" object, else its "detail" object, else the body
\* itself), trimmed; <<>> when there is none
UpstreamCode(r) ==
    LET o == BodyOf(r)
        c == IF o.error.t = "dict" THEN o.error.d.code
             ELSE IF o.detail.t = "dict" THEN o.detail.d.code
             ELSE o.code
    IN  IF NonBlankStr(c) THEN Strip(c.s) ELSE <<>>

\* the upgrade URL the body holds: at the top level, else under the error
\* object, else under the detail object; <<>> when it holds none
BodyUpgradeUrl(r) ==
    LET o == BodyOf(r) IN
    IF NonBlankStr(o.upgrade_url) THEN Strip(o.upgrade_url.s)
    ELSE IF o.error.t = "dict" /\ NonBlankStr(o.error.d.upgrade_url)
    THEN Strip(o.error.d.upgrade_url.s)
    ELSE IF o.detail.t = "dict" /\ NonBlankStr(o.detail.d.upgrade_url)
    THEN Strip(o.detail.d.upgrade_url.s)
    ELSE <<>>

\* the API answered t's request with this status
AnsweredWith(t, statuses) == Answered(t) /\ call[t].response.status \in statuses

\* C17: a 402 answer raises an error with action upgrade_required; its code
\* is the upstream code, trial_quota_exhausted mapped to quota_exhausted, and
\* quota_exhausted when there is no upstream code; its upgrade URL is the one
\* of the body (top level, else error object, else detail object) and, when
\* the body has none, the one of the resolved credential's metadata.
C17_Classify402 ==
    \A t \in Tasks :
        AnsweredWith(t, {402}) =>
            LET r == call[t].response
                err == call[t].outcome.err
            IN  /\ call[t].outcome.kind = "SentinelAPIError"
                /\ err.status_code = 402
                /\ err.action = "upgrade_required"
                /\ err.code = Str(IF UpstreamCode(r) \in {<<>>, TrialQuotaExhausted}
                                  THEN QuotaExhausted ELSE UpstreamCode(r))
                /\ err.upgrade_url = (IF BodyUpgradeUrl(r) # <<>> THEN Str(BodyUpgradeUrl(r))
                                      ELSE call[t].result.upgrade_url)

\* C17 witness: a 402 answer whose detail object holds trial_quota_exhausted
\* and no upgrade URL has been classified with the upgrade URL of the cached
\* record.
C17_Witness ==
    \E t \in Tasks :
        /\ AnsweredWith(t, {402})
        /\ call[t].response.obj.detail.t = "dict"
        /\ call[t].response.obj.detail.d.code = Str(TrialQuotaExhausted)
        /\ BodyUpgradeUrl(call[t].response) = <<>>
        /\ call[t].result.source = "cache"
        /\ call[t].outcome.err.code = Str(QuotaExhausted)
        /\ call[t].outcome.err.upgrade_url = Str(UpgradeUrl)

\* what a Retry-After header says: a number of seconds when it is, but for
\* surrounding whitespace, an integer (digits, with or without a sign) that
\* is not negative; nothing when it is missing, empty, negative or anything
\* else
RetryAfterOf(r) ==
    LET raw == IF IsStr(r.retry_after) THEN Strip(r.retry_after.s) ELSE <<>>
        digits == IF raw # <<>> /\ Head(raw) \in {"+", "-"} THEN Tail(raw) ELSE raw
    IN  IF AllDigits(digits) /\ (Head(raw) # "-" \/ DigitsValue(digits, 0) = 0)
        THEN [some |-> TRUE, n |-> DigitsValue(digits, 0)]
        ELSE [some |-> FALSE, n |-> 0]

\* C18: a 429 answer raises an error with action retry_later and the
\* upstream code, or rate_limited when there is none; its retry-after value
\* is the Retry-After header read as a non-negative integer, and is absent
\* when the header is missing, empty, negative or no integer.
C18_Classify429 ==
    \A t \in Tasks :
        AnsweredWith(t, {429}) =>
            LET r == call[t].response
                err == call[t].outcome.err
            IN  /\ call[t].outcome.kind = "SentinelAPIError"
                /\ err.status_code = 429
                /\ err.action = "retry_later"
                /\ err.code = Str(IF UpstreamCode(r) = <<>> THEN RateLimited ELSE UpstreamCode(r))
                /\ err.retry_after_seconds = RetryAfterOf(r)

\* C19: a 401 or 403 answer raises an error with action
\* configure_credentials, the upstream code or auth_failed, and the fixed
\* credential-check message whatever the body holds; an answer with any other
\* status that is not 2xx, 402 or 429 raises an error with no action, no
\* retry-after value, no upgrade URL, and a code only when the body holds one.
C19_ClassifyAuthAndOther ==
    \A t \in Tasks :
        (Answered(t) /\ ~Is2xx(call[t].response.status)
                     /\ call[t].response.status \notin {402, 429}) =>
            LET r == call[t].response
                err == call[t].outcome.err
            IN  /\ call[t].outcome.kind = "SentinelAPIError"
                /\ err.status_code = r.status
                /\ IF r.status \in {401, 403}
                   THEN /\ err.action = "configure_credentials"
                        /\ err.code = Str(IF UpstreamCode(r) = <<>> THEN AuthFailed
                                          ELSE UpstreamCode(r))
                        /\ err.message = "auth"
                   ELSE /\ err.action = "none"
                        /\ err.retry_after_seconds = NoRetry
                        /\ err.upgrade_url = None
                        /\ err.code = (IF UpstreamCode(r) = <<>> THEN None
                                       ELSE Str(UpstreamCode(r)))

\* the issuer's answer is a 2xx response whose body is a JSON object with a
\* non-blank api key
MintOk(r) ==
    /\ r.kind = "response"
    /\ Is2xx(r.status)
    /\ r.body = "object"
    /\ NonBlankStr(r.rec.api_key)

\* C20: the trial mint returns a record exactly when the issuer answers 2xx
\* with a JSON object holding a non-blank api key, and the record is the one
\* of the answer; on a transport failure, any other status, a body that is no
\* object and a missing or blank api key it fails with
\* CredentialResolutionError and returns no record.
C20_MintContract ==
    [][\A t \in Tasks : \A r \in MintResponses :
          MintRespond(t, r) =>
              IF MintOk(r)
              THEN /\ call'[t].pc = "saving"
                   /\ call'[t].payload.api_key = r.rec.api_key
                   /\ call'[t].payload.expires_at = r.rec.expires_at
              ELSE /\ call'[t].pc = "done"
                   /\ call'[t].result = Raised("CredentialResolutionError")
                   /\ call'[t].payload = NoRec]_vars

\* a call of save_cached_credentials by t is under way or has ended
Saving(t) == call[t].op = "save" /\ call[t].pc \in {"storing", "done"}

\* C21: at every step of save_cached_credentials, a load of the credential
\* path returns what it returned before the save (the previous record, or
\* absent) or the complete new record, and never anything else.
C21_AtomicReplace ==
    \A t \in Tasks :
        Saving(t) =>
            \/ load_cached_credentials(disk) = Loaded(t)
            \/ load_cached_credentials(disk) =
                  [exc |-> "none", found |-> TRUE, rec |-> call[t].payload]

\* C21 witness: the temporary sibling holds the new record, the rename is
\* the next statement, and a load of the path returns the previous record.
C21_Witness ==
    \E t \in Tasks :
        /\ call[t].op = "save" /\ call[t].pc = "storing" /\ call[t].step = 4
        /\ disk.tmp.kind = "object" /\ disk.tmp.rec = call[t].payload
        /\ Loaded(t).found
        /\ Loaded(t).rec # call[t].payload
        /\ load_cached_credentials(disk) = Loaded(t)

\* the files this save has written: the temporary sibling once write_text
\* has run, the credential file once the rename has
WrittenBy(t) ==
    {f \in {disk.tmp} : call[t].pc = "storing" /\ call[t].step \in {3, 4}}
    \cup {f \in {disk.file} :
             \/ call[t].pc = "storing" /\ call[t].step = 5
             \/ call[t].pc = "done" /\ call[t].ret.exc = "none"}

\* permission bits that grant nothing to the group and to others
OwnerOnly(mode) == mode \in {"600", "000"}

\* C22: at every step of a save, every file that holds the new record, the
\* temporary sibling as well as the credential file, has permission bits
\* that grant access to the owner alone.
C22_NeverExposed ==
    \A t \in Tasks :
        Saving(t) =>
            \A f \in WrittenBy(t) :
                (f.kind = "object" /\ f.rec = call[t].payload) => OwnerOnly(f.mode)

\* t's call of resolve_credentials has ended with CredentialResolutionError
\* after loading the credential file
Failed(t) ==
    /\ Done(t) /\ Resolving(t)
    /\ call[t].loads = 1
    /\ call[t].result = Raised("CredentialResolutionError")

\* C23: when resolve_credentials ends with CredentialResolutionError, under
\* no_trial or after a failed mint, the credential file is what it was before
\* the call, a stale, expired or malformed one included, and nothing has
\* been written.
C23_FailureKeepsFile ==
    \A t \in Tasks :
        Failed(t) =>
            /\ disk.file = call[t].seen
            /\ call[t].writes = 0
            /\ call[t].settings.no_trial <=> (call[t].mints = 0)

\* C23 witness: a mint has failed over an expired record, and the record is
\* still in the file.
C23_Witness ==
    \E t \in Tasks :
        /\ Failed(t)
        /\ call[t].mints = 1
        /\ call[t].seen = File("object", [GoodRecord EXCEPT !.expires_at = Str(<<"1", "Z">>)], "600")
        /\ call[t].seenAt >= 1
        /\ disk.file = call[t].seen

\* t is inside resolve_credentials, at or after the lock
Pending(t) == call[t].pc \in {"waiting", "minting", "saving"}

\* C24: the lock is held only while a call is between its mint request and
\* the end of its save; every call that waits for the lock, mints or saves
\* eventually returns or raises; and a call with a static api key ends in its
\* first step without waiting, whoever holds the lock.
C24_EveryCallEnds ==
    /\ [](locked => \E t \in Tasks : call[t].pc \in {"minting", "saving"})
    /\ \A t \in Tasks : Pending(t) ~> Done(t)
    /\ [][\A t \in Tasks :
             (Begins(t) /\ Truthy(call'[t].settings.api_key)) =>
                 /\ call'[t].pc = "done"
                 /\ ~call'[t].waited
                 /\ waiters' = waiters /\ locked' = locked]_vars

\* C24 witness: a call that waited for the lock has ended after the save of
\* the call that held it failed.
C24_Witness ==
    \E t \in Tasks, u \in Tasks :
        /\ Done(t) /\ call[t].waited
        /\ Done(u) /\ call[u].result = Raised("OSError")

\* t's invocation has sent its request to the API with a key from the
\* credential file, and has returned
Requested(t) ==
    /\ Invoked(t)
    /\ call[t].requests = 1
    /\ call[t].result.source \in {"cache", "trial"}

\* C25: the step in which the API's answer arrives leaves the disk as it is;
\* after an invocation whose request was sent, whatever the answer, the
\* credential file is what the resolution left (the record loaded, or the
\* record minted), and a resolution under the same settings at any time
\* before the record's expiry returns the same key with provenance cache.
C25_ResponseKeepsCredential ==
    /\ [][\A t \in Tasks :
             (call[t].pc = "requesting" /\ call'[t].pc = "done") => disk' = disk]_vars
    /\ [](\A t \in Tasks :
             Requested(t) =>
                 /\ disk.file = (IF call[t].result.source = "cache" THEN call[t].seen
                                 ELSE File("object", call[t].payload, "600"))
                 /\ \A clock \in now..MaxNow :
                       (\/ disk.file.rec.expires_at = None
                        \/ FutureExpiry(disk.file.rec.expires_at, clock)) =>
                           ResolveLocked(call[t].settings, disk, clock) =
                               Resolved(call[t].result.api_key, "cache",
                                        call[t].result.upgrade_url))

\* C25 witness: an invocation with a freshly minted key has been answered
\* 401, and the minted record is in the file.
C25_Witness ==
    \E t \in Tasks :
        /\ Requested(t)
        /\ call[t].result.source = "trial"
        /\ AnsweredWith(t, {401})
        /\ disk.file.rec = call[t].payload

====
